---- MODULE Spec2Model ----
(***************************************************************************)
(* State-machine model of the central-joias backend (src/main.py): the     *)
(* admin login and bearer-token check, the home-content singleton, the     *)
(* category and product collections, and the upload endpoint.              *)
(*                                                                         *)
(* A collection is the sequence of its documents in insertion order.  No   *)
(* endpoint removes a document, so a document's position in the sequence   *)
(* is its storage identity (the role of MongoDB's _id) and the order of    *)
(* the sequence is the natural order find/find_one/update_one scan in.     *)
(* A document is a function from field names to values.                    *)
(***************************************************************************)
EXTENDS Integers, Sequences, FiniteSets, TLC

VARIABLES
    ADMIN_USER,            \* <<>> when ADMIN_USERNAME is unset, else <<name>>
    ADMIN_PASS,            \* <<>> when ADMIN_PASSWORD is unset, else <<password>>
    JWT_EXPIRATION_HOURS,  \* configured token lifetime
    now,                   \* the clock, in ticks
    client,                \* <<>> or <<[token, issued]>>: the last login's token
    home_content,          \* db.home_content
    categories,            \* db.categories
    products,              \* db.products
    resp,                  \* the last response sent
    deleted,               \* positions of the products a DELETE has matched
    pending,               \* requests in flight (concurrent specification)
    initial                \* the storage the concurrent requests started from

vars == <<ADMIN_USER, ADMIN_PASS, JWT_EXPIRATION_HOURS, now,
          client, home_content, categories, products, resp, deleted,
          pending, initial>>

config == <<ADMIN_USER, ADMIN_PASS, JWT_EXPIRATION_HOURS>>
storage == <<home_content, categories, products>>

-----------------------------------------------------------------------------
(* Bounds *)

TicksPerSecond == 2     \* clock resolution: ticks in one second
HourSeconds == 2        \* an hour, scaled to this many seconds
MaxHours == 2           \* JWT_EXPIRATION_HOURS ranges over 1..MaxHours
MaxClock == 12          \* the clock stops here
MaxDocs == 2            \* documents in storage, all collections together
NumClients == 2         \* concurrent requests

-----------------------------------------------------------------------------
(* Values *)

Empty == [k \in {} |-> 0]

JWT_SECRET == "secret"
OtherSecret == "other-secret"

Usernames == {"admin", "guest"}
Passwords == {"pw", "bad"}

Min(S) == CHOOSE i \in S : \A j \in S : i <= j

-----------------------------------------------------------------------------
(* AUTH *)

\* jose.jwt.encode: a datetime claim is stored as whole seconds (timegm of
\* its utctimetuple), and the token is signed with the key.
jwt_encode(claims, key) ==
    [sub |-> claims.sub, exp |-> claims.exp \div TicksPerSecond, key |-> key]

\* a decode that allows a second of leeway
jwt_decode_late(token, key) ==
    IF token.key # key THEN [ok |-> FALSE]
    ELSE IF token.exp + 1 < now \div TicksPerSecond THEN [ok |-> FALSE]
    ELSE [ok |-> TRUE, payload |-> [sub |-> token.sub, exp |-> token.exp]]

\* jose.jwt.decode: the signature must be made with the key; the exp claim
\* is checked against the current whole second and the token is expired
\* when exp < now.
jwt_decode(token, key) ==
    IF token.key # key THEN [ok |-> FALSE]
    ELSE IF token.exp < now \div TicksPerSecond THEN [ok |-> FALSE]
    ELSE [ok |-> TRUE, payload |-> [sub |-> token.sub, exp |-> token.exp]]

\* The status HTTPBearer gives a request without credentials: 403 in the
\* older FastAPI releases, 401 in the newer; the source pins no version.
NotAuthenticated == {401, 403}

\* security = HTTPBearer(): a request without Authorization header is
\* rejected before verify_token runs; the header is <<>> or <<token>>.
security(header) ==
    IF header = <<>>
    THEN [ok |-> FALSE, status |-> NotAuthenticated, raised |-> "security",
          detail |-> "Not authenticated"]
    ELSE [ok |-> TRUE, credentials |-> header[1]]

\* a verification that reads the claims without checking the signature
verify_token_any_key(header) ==
    LET credentials == security(header) IN
    IF ~credentials.ok THEN credentials
    ELSE [ok |-> TRUE, user |-> credentials.credentials.sub]

verify_token(header) ==
    LET credentials == security(header) IN
    IF ~credentials.ok THEN credentials
    ELSE LET decoded == jwt_decode(credentials.credentials, JWT_SECRET) IN
         IF decoded.ok THEN [ok |-> TRUE, user |-> decoded.payload.sub]
         ELSE [ok |-> FALSE, status |-> {401}, raised |-> "verify_token",
               detail |-> "Token invalido"]

\* The HTTPException responses of a failed dependency: they name the
\* dependency that raised, not the endpoint.
Unauthorized(auth) ==
    {[op |-> auth.raised, status |-> s, body |-> [detail |-> auth.detail]] :
        s \in auth.status}

\* The tokens a caller can forge: any claims, signed with a secret of its own.
ForgedTokens ==
    {[sub |-> "admin", exp |-> MaxClock, key |-> OtherSecret]}

\* The Authorization headers a request can carry.
Headers ==
    {<<>>} \cup {<<t>> : t \in ForgedTokens}
           \cup (IF client = <<>> THEN {} ELSE {<<client[1].token>>})

Expire == now + JWT_EXPIRATION_HOURS * HourSeconds * TicksPerSecond

\* a comparison that forgets the password
credentials_match_user_only(data) ==
    <<data.username>> = ADMIN_USER

credentials_match(data) ==
    ~(<<data.username>> # ADMIN_USER \/ <<data.password>> # ADMIN_PASS)

admin_login(data) ==
    /\ IF ~credentials_match(data)
       THEN /\ resp' = [op |-> "admin_login", status |-> 401,
                        body |-> [detail |-> "Credenciais invalidas"]]
            /\ UNCHANGED client
       ELSE LET token == jwt_encode([sub |-> data.username, exp |-> Expire],
                                    JWT_SECRET) IN
            /\ resp' = [op |-> "admin_login", status |-> 200,
                        body |-> [access_token |-> token,
                                  token_type |-> "bearer"]]
            /\ client' = <<[token |-> token, issued |-> now]>>
    /\ UNCHANGED <<config, now, storage, deleted, pending, initial>>

\* cloudinary.uploader.upload either returns a secure_url or raises.
upload_image(header, outcome) ==
    LET user == verify_token(header) IN
    /\ IF ~user.ok THEN resp' \in Unauthorized(user)
       ELSE IF outcome = "ok"
       THEN resp' = [op |-> "upload_image", status |-> 200,
                     body |-> [url |-> "https://res.cloudinary.com/img"]]
       ELSE resp' = [op |-> "upload_image", status |-> 500,
                     body |-> [detail |-> "upload failed"]]
    /\ UNCHANGED <<config, now, client, storage, deleted, pending,
                   initial>>

Tick ==
    /\ now < MaxClock
    /\ now' = now + 1
    /\ UNCHANGED <<config, client, storage, resp, deleted, pending,
                   initial>>

Login == \E u \in Usernames, p \in Passwords :
            admin_login([username |-> u, password |-> p])


-----------------------------------------------------------------------------
(* DATABASE: the operations of a collection *)

Matches(coll, field, value) ==
    {i \in 1..Len(coll) : field \in DOMAIN coll[i] /\ coll[i][field] = value}

\* a find that drops its filter
find_all(coll, field, value) == coll

\* collection.find({field: value}), in natural order
find(coll, field, value) ==
    SelectSeq(coll, LAMBDA d : field \in DOMAIN d /\ d[field] = value)

\* cursor.to_list(length)
to_list(cursor, length) ==
    SubSeq(cursor, 1, IF Len(cursor) < length THEN Len(cursor) ELSE length)

\* collection.find_one({field: value}): <<>> (None) or <<document>>
find_one(coll, field, value) ==
    IF Matches(coll, field, value) = {} THEN <<>>
    ELSE <<coll[Min(Matches(coll, field, value))]>>

insert_one(coll, doc) == Append(coll, doc)

\* an update that replaces the document (replace_one)
update_one_replace(coll, field, value, set) ==
    IF Matches(coll, field, value) = {} THEN coll
    ELSE [coll EXCEPT ![Min(Matches(coll, field, value))] = set]

\* collection.update_one({field: value}, {"$set": set}): the first matching
\* document gets the fields of set, keeps its other fields; no match, no change.
update_one(coll, field, value, set) ==
    IF Matches(coll, field, value) = {} THEN coll
    ELSE [coll EXCEPT ![Min(Matches(coll, field, value))] = set @@ @]

\* The document an upsert inserts when nothing matches: the equality fields
\* of the query, then the $set fields over them.
upsert_document(field, value, set) == set @@ (field :> value)

\* update_one(..., upsert=True) with no other writer between its scan and
\* its insert.
upsert_one(coll, field, value, set) ==
    IF Matches(coll, field, value) = {}
    THEN insert_one(coll, upsert_document(field, value, set))
    ELSE update_one(coll, field, value, set)

ListLimit == 1000

\* Documents in storage
Docs == Len(home_content) + Len(categories) + Len(products)

\* uuid.uuid4(): a value never drawn before.  It is drawn for a document
\* that is being created: the collection's letter and the position the
\* document will take, which no other document has or will have.
uuid4(letter, coll) == letter \o ToString(Len(coll) + 1)

-----------------------------------------------------------------------------
(* MODELS *)

HomeBranding == [nome_loja |-> "", slogan |-> "", logo_url |-> ""]

HomeHero == [imagem |-> "", titulo |-> "", texto |-> <<>>,
             frase_impacto |-> "", cta_texto |-> "", cta_link |-> ""]

HomeSobre == [titulo |-> "", mensagens |-> <<>>, textos |-> <<>>,
              fotos |-> <<>>]

HomeContato == [titulo |-> "", subtitulo |-> "", instagram_url |-> "",
                lojas |-> <<>>]

HomeFooter == [institucional |-> "", cnpj |-> "", selo_texto |-> "",
               lojas |-> <<>>, certificados |-> <<>>]

\* HomeContent().model_dump()
HomeContent == [slug |-> "home", branding |-> HomeBranding, hero |-> HomeHero,
                sobre |-> HomeSobre, contato |-> HomeContato,
                footer |-> HomeFooter]

\* Category(**body).model_dump(): the body's fields over the defaults
Category(body) ==
    body @@ [id |-> uuid4("c", categories), ativo |-> TRUE,
             created_at |-> now]

ProductCarousel == [home |-> FALSE, promo |-> FALSE, destaque |-> FALSE,
                    order |-> 0]

\* Product(**body).model_dump(); promo_price None is <<>>
Product(body) ==
    body @@ [id |-> uuid4("p", products), promo_active |-> FALSE,
             promo_price |-> <<>>,
             images |-> <<>>, specs |-> <<>>, carousel |-> ProductCarousel,
             active |-> TRUE, created_at |-> now]

-----------------------------------------------------------------------------
(* Request bodies *)

Ids(coll) == {coll[i].id : i \in 1..Len(coll)}

\* The ids a path can name: a product's, or one no document has.  A body
\* names the id "a" or none.
PathIds == Ids(products) \cup {"missing"}

Optional(field, values) == {Empty} \cup {field :> v : v \in values}

\* The home-content maps: one field of a section, a second section, the slug.
HomeMaps ==
    { [branding |-> [nome_loja |-> "Central Joias"]],
      [hero |-> [titulo |-> "Novo"]],
      [slug |-> "promo"] }

CategoryBodies ==
    {[nome |-> "Aneis", slug |-> "aneis"] @@ i @@ a :
        i \in Optional("id", {"a"}),
        a \in Optional("ativo", {FALSE})}

ProductBodies ==
    {[name |-> "Anel de Prata", category |-> "aneis", price |-> 1] @@ i :
        i \in Optional("id", {"a"})}

\* The partial maps of PUT /products/{id}: at least one field named
\* (an empty $set is refused by servers before MongoDB 5.0).
ProductMaps ==
    { [price |-> 2], [active |-> TRUE], [id |-> "a"],
      [price |-> 2, active |-> FALSE] }

-----------------------------------------------------------------------------
(* HOME CONTENT *)

Ok(op) == [op |-> op, status |-> 200, body |-> [ok |-> TRUE]]

\* data or HomeContent().model_dump()
home_view(coll) ==
    LET data == find_one(coll, "slug", "home") IN
    IF data = <<>> THEN HomeContent ELSE data[1]

get_home_content ==
    /\ resp' = [op |-> "get_home_content", status |-> 200,
                body |-> home_view(home_content)]
    /\ UNCHANGED <<config, now, client, storage, deleted, pending,
                   initial>>

update_home_content(data, header) ==
    LET user == verify_token(header) IN
    /\ IF ~user.ok
       THEN /\ resp' \in Unauthorized(user)
            /\ UNCHANGED home_content
       ELSE /\ home_content' = upsert_one(home_content, "slug", "home", data)
            /\ Len(home_content') = Len(home_content) \/ Docs < MaxDocs
            /\ resp' = Ok("update_home_content")
    /\ UNCHANGED <<config, now, client, categories, products, deleted,
                   pending, initial>>

-----------------------------------------------------------------------------
(* CATEGORIES *)

get_categories ==
    /\ resp' = [op |-> "get_categories", status |-> 200,
                body |-> to_list(find(categories, "ativo", TRUE), ListLimit)]
    /\ UNCHANGED <<config, now, client, storage, deleted, pending,
                   initial>>

create_category(body, header) ==
    LET user == verify_token(header)
        category == Category(body) IN
    /\ IF ~user.ok
       THEN /\ resp' \in Unauthorized(user)
            /\ UNCHANGED categories
       ELSE /\ Docs < MaxDocs
            /\ categories' = insert_one(categories, category)
            /\ resp' = [op |-> "create_category", status |-> 200,
                        body |-> category]
    /\ UNCHANGED <<config, now, client, home_content, products, deleted,
                   pending, initial>>

-----------------------------------------------------------------------------
(* PRODUCTS *)

get_products ==
    /\ resp' = [op |-> "get_products", status |-> 200,
                body |-> to_list(find(products, "active", TRUE), ListLimit)]
    /\ UNCHANGED <<config, now, client, storage, deleted, pending,
                   initial>>

create_product(body, header) ==
    LET user == verify_token(header)
        product == Product(body) IN
    /\ IF ~user.ok
       THEN /\ resp' \in Unauthorized(user)
            /\ UNCHANGED products
       ELSE /\ Docs < MaxDocs
            /\ products' = insert_one(products, product)
            /\ resp' = [op |-> "create_product", status |-> 200,
                        body |-> product]
    /\ UNCHANGED <<config, now, client, home_content, categories, deleted,
                   pending, initial>>

update_product(id, data, header) ==
    LET user == verify_token(header) IN
    /\ IF ~user.ok
       THEN /\ resp' \in Unauthorized(user)
            /\ UNCHANGED products
       ELSE /\ resp' = Ok("update_product")
            /\ products' = update_one(products, "id", id, data)
    /\ UNCHANGED <<config, now, client, home_content, categories, deleted,
                   pending, initial>>

SoftDelete == [active |-> FALSE]

\* delete_one in place of the soft delete
delete_product_hard(id, header) ==
    LET user == verify_token(header) IN
    /\ IF ~user.ok
       THEN /\ resp' \in Unauthorized(user)
            /\ UNCHANGED <<products, deleted>>
       ELSE /\ resp' = Ok("delete_product")
            /\ products' = SelectSeq(products, LAMBDA d : d.id # id)
            /\ deleted' = deleted \cup
                 (IF Matches(products, "id", id) = {} THEN {}
                  ELSE {Min(Matches(products, "id", id))})
    /\ UNCHANGED <<config, now, client, home_content, categories, pending,
                   initial>>

delete_product(id, header) ==
    LET user == verify_token(header) IN
    /\ IF ~user.ok
       THEN /\ resp' \in Unauthorized(user)
            /\ UNCHANGED <<products, deleted>>
       ELSE /\ resp' = Ok("delete_product")
            /\ products' = update_one(products, "id", id, SoftDelete)
            /\ deleted' = deleted \cup
                 (IF Matches(products, "id", id) = {} THEN {}
                  ELSE {Min(Matches(products, "id", id))})
    /\ UNCHANGED <<config, now, client, home_content, categories, pending,
                   initial>>

-----------------------------------------------------------------------------
(* The requests, one at a time *)

\* A rejected request's handler never runs, so its path and body are never
\* read: one of them stands for all.
Inputs(header, S) ==
    IF verify_token(header).ok THEN S ELSE {CHOOSE x \in S : TRUE}

PutHome == \E h \in Headers : \E d \in Inputs(h, HomeMaps) :
              update_home_content(d, h)

CreateCategory == \E h \in Headers : \E b \in Inputs(h, CategoryBodies) :
                     create_category(b, h)

CreateProduct == \E h \in Headers : \E b \in Inputs(h, ProductBodies) :
                    create_product(b, h)

UpdateProduct == \E h \in Headers :
                    \E id \in Inputs(h, PathIds), d \in Inputs(h, ProductMaps) :
                        update_product(id, d, h)

DeleteProduct == \E h \in Headers : \E id \in Inputs(h, PathIds) :
                    delete_product(id, h)

Upload == \E h \in Headers : \E o \in Inputs(h, {"ok", "fail"}) :
             upload_image(h, o)

NoResponse == [op |-> "none", status |-> 0, body |-> Empty]

InitStore ==
    /\ home_content = <<>>
    /\ categories = <<>>
    /\ products = <<>>
    /\ deleted = {}
    /\ pending = <<>>
    /\ initial = <<>>
    /\ resp = NoResponse
    /\ client = <<>>
    /\ now = 0

InitAuth ==
    /\ \E configured \in BOOLEAN :
          /\ ADMIN_USER = IF configured THEN <<"admin">> ELSE <<>>
          /\ ADMIN_PASS = IF configured THEN <<"pw">> ELSE <<>>
    /\ JWT_EXPIRATION_HOURS \in 1..MaxHours
    /\ InitStore

NextAuth == Tick \/ Login \/ Upload

SpecAuth == InitAuth /\ [][NextAuth]_vars

Init ==
    /\ ADMIN_USER = <<"admin">>
    /\ ADMIN_PASS = <<"pw">>
    /\ JWT_EXPIRATION_HOURS = MaxHours
    /\ InitStore

Next ==
    \/ Login
    \/ get_home_content
    \/ PutHome
    \/ get_categories
    \/ CreateCategory
    \/ get_products
    \/ CreateProduct
    \/ UpdateProduct
    \/ DeleteProduct
    \/ Upload

Spec == Init /\ [][Next]_vars

-----------------------------------------------------------------------------
(* Concurrent requests.  The handlers suspend only at their one database    *)
(* call.  update_one on a matched document is one atomic document write;    *)
(* an upsert that matches nothing inserts afterwards, and the collection    *)
(* has no unique index on slug to make a second such insert fail.           *)

Clients == 1..NumClients

Request(op, id, data, header) ==
    [op |-> op, id |-> id, data |-> data, header |-> header, step |-> "sent"]

\* The mutating requests a caller can send with the header
Requests(h) ==
    {Request("update_home_content", "", d, h) : d \in Inputs(h, HomeMaps)}
    \cup {Request("update_product", id, d, h) :
             id \in Inputs(h, PathIds), d \in Inputs(h, ProductMaps)}
    \cup {Request("delete_product", id, Empty, h) : id \in Inputs(h, PathIds)}

\* The clients send one request each, at the same time.
Send ==
    /\ pending = <<>>
    /\ pending' \in [Clients -> UNION {Requests(h) : h \in Headers}]
    /\ initial' = [home_content |-> home_content, products |-> products]
    /\ UNCHANGED <<config, now, client, storage, resp, deleted>>

\* The handler of c's request runs up to the end of its database call, or,
\* for an upsert that matched nothing, up to the end of the scan.
Execute(c) ==
    LET r == pending[c]
        user == verify_token(r.header)
    IN
    /\ pending # <<>>
    /\ r.step = "sent"
    /\ IF ~user.ok
       THEN /\ resp' \in Unauthorized(user)
            /\ pending' = [pending EXCEPT ![c].step = "done"]
            /\ UNCHANGED <<storage, deleted>>
       ELSE IF r.op = "update_product"
       THEN /\ resp' = Ok("update_product")
            /\ products' = update_one(products, "id", r.id, r.data)
            /\ pending' = [pending EXCEPT ![c].step = "done"]
            /\ UNCHANGED <<home_content, categories, deleted>>
       ELSE IF r.op = "delete_product"
       THEN /\ resp' = Ok("delete_product")
            /\ products' = update_one(products, "id", r.id, SoftDelete)
            /\ deleted' = deleted \cup
                 (IF Matches(products, "id", r.id) = {} THEN {}
                  ELSE {Min(Matches(products, "id", r.id))})
            /\ pending' = [pending EXCEPT ![c].step = "done"]
            /\ UNCHANGED <<home_content, categories>>
       ELSE IF Matches(home_content, "slug", "home") # {}
       THEN /\ resp' = Ok("update_home_content")
            /\ home_content' = update_one(home_content, "slug", "home", r.data)
            /\ pending' = [pending EXCEPT ![c].step = "done"]
            /\ UNCHANGED <<categories, products, deleted>>
       ELSE /\ pending' = [pending EXCEPT ![c].step = "insert"]
            /\ UNCHANGED <<storage, resp, deleted>>
    /\ UNCHANGED <<config, now, client, initial>>

\* The upsert of c's request, having matched nothing, inserts its document.
Insert(c) ==
    /\ pending # <<>>
    /\ pending[c].step = "insert"
    /\ Docs < MaxDocs
    /\ home_content' = insert_one(home_content,
                           upsert_document("slug", "home", pending[c].data))
    /\ resp' = Ok("update_home_content")
    /\ pending' = [pending EXCEPT ![c].step = "done"]
    /\ UNCHANGED <<config, now, client, categories, products, deleted,
                   initial>>

FirstProduct ==
    [name |-> "Anel de Prata", category |-> "aneis", price |-> 1,
     id |-> "p1", promo_active |-> FALSE, promo_price |-> <<>>,
     images |-> <<>>, specs |-> <<>>, carousel |-> ProductCarousel,
     active |-> TRUE, created_at |-> 0]

\* The admin has logged in; storage is empty, or holds one product, or
\* holds the home-content document of one PUT.
InitConc ==
    /\ ADMIN_USER = <<"admin">>
    /\ ADMIN_PASS = <<"pw">>
    /\ JWT_EXPIRATION_HOURS = MaxHours
    /\ now = 0
    /\ client = <<[token |-> jwt_encode([sub |-> "admin",
                                         exp |-> MaxHours * HourSeconds
                                                   * TicksPerSecond],
                                        JWT_SECRET),
                   issued |-> 0]>>
    /\ \/ home_content = <<>> /\ products = <<>>
       \/ home_content = <<>> /\ products = <<FirstProduct>>
       \/ /\ home_content = <<upsert_document("slug", "home",
                                  [branding |-> [nome_loja |-> "Central Joias"]])>>
          /\ products = <<>>
    /\ categories = <<>>
    /\ resp = [op |-> "admin_login", status |-> 200,
               body |-> [access_token |-> client[1].token,
                         token_type |-> "bearer"]]
    /\ deleted = {}
    /\ pending = <<>>
    /\ initial = <<>>

NextConc ==
    \/ Send
    \/ \E c \in Clients : Execute(c)
    \/ \E c \in Clients : Insert(c)

SpecConc == InitConc /\ [][NextConc]_vars

\* What a request does when it runs alone
Alone(store, r) ==
    IF ~verify_token(r.header).ok THEN store
    ELSE IF r.op = "update_product"
    THEN [store EXCEPT !.products = update_one(@, "id", r.id, r.data)]
    ELSE IF r.op = "delete_product"
    THEN [store EXCEPT !.products = update_one(@, "id", r.id, SoftDelete)]
    ELSE [store EXCEPT !.home_content = upsert_one(@, "slug", "home", r.data)]

RECURSIVE Serial(_, _)
Serial(store, order) ==
    IF order = <<>> THEN store
    ELSE Serial(Alone(store, pending[Head(order)]), Tail(order))

Orders == {o \in [Clients -> Clients] : \A c \in Clients : \E i \in Clients : o[i] = c}

-----------------------------------------------------------------------------
(* Properties *)

BadHeaders == {<<>>} \cup {<<t>> : t \in ForgedTokens}

GoodHeaders == {h \in Headers : verify_token(h).ok}

\* A request to a protected endpoint carrying the header
Protected(h) ==
    \/ \E d \in Inputs(h, HomeMaps) : update_home_content(d, h)
    \/ \E b \in Inputs(h, CategoryBodies) : create_category(b, h)
    \/ \E b \in Inputs(h, ProductBodies) : create_product(b, h)
    \/ \E id \in Inputs(h, PathIds), d \in Inputs(h, ProductMaps) :
          update_product(id, d, h)
    \/ \E id \in Inputs(h, PathIds) : delete_product(id, h)
    \/ \E o \in Inputs(h, {"ok", "fail"}) : upload_image(h, o)

Listed(o) ==
    \E i \in DOMAIN to_list(find(products, "active", TRUE), ListLimit) :
        to_list(find(products, "active", TRUE), ListLimit)[i] = products[o]

\* C2 as stated: once DELETE has matched a product, its document stays in
\* storage, its active flag stays false and GET /products never returns it.
C2_AsStated ==
    \A o \in deleted :
        /\ o \in 1..Len(products)
        /\ products[o].active = FALSE
        /\ ~Listed(o)

\* C2, amended: once DELETE has matched a product, its document stays in
\* storage, and its active flag stays false, and the product out of
\* GET /products, through every request but a PUT /products/{id} that
\* matches it and names active in its map.
C2_SoftDelete ==
    /\ [](\A o \in deleted :
            /\ o \in 1..Len(products)
            /\ products[o].active = FALSE => ~Listed(o))
    /\ [][\A h \in GoodHeaders : \A id \in PathIds :
            delete_product(id, h) =>
                \A o \in Matches(products, "id", id) :
                    o = Min(Matches(products, "id", id)) =>
                        o \in deleted' /\ products'[o].active = FALSE]_vars
    /\ [][\A o \in deleted :
            (products[o].active = FALSE /\ products'[o].active # FALSE) =>
                \E h \in GoodHeaders, id \in PathIds, d \in ProductMaps :
                    /\ update_product(id, d, h)
                    /\ "active" \in DOMAIN d
                    /\ o = Min(Matches(products, "id", id))]_vars

C2_Witness ==
    /\ resp.op = "update_product"
    /\ resp.status = 200
    /\ \E o \in deleted : products[o].active = FALSE /\ products[o].price = 2

AllActive(listing, flag) ==
    \A i \in DOMAIN listing : listing[i][flag] = TRUE

\* C3: the result of GET /categories holds only documents with ativo = true
\* and the result of GET /products only documents with active = true.
C3_ListingsActive ==
    /\ resp.op = "get_categories" => AllActive(resp.body, "ativo")
    /\ resp.op = "get_products" => AllActive(resp.body, "active")
    /\ AllActive(to_list(find(categories, "ativo", TRUE), ListLimit), "ativo")
    /\ AllActive(to_list(find(products, "active", TRUE), ListLimit), "active")

C3_Witness ==
    /\ resp.op = "get_products"
    /\ Len(resp.body) = 1
    /\ Len(products) = 2
    /\ \E i \in DOMAIN products : products[i].active = FALSE

\* C4: an accepted PUT /products/{id} answers {ok: true}; in the first
\* document with that id it sets the fields of the map and no other field,
\* it changes no other document, and with no such document it changes
\* nothing.  (Only a step answering update_product's acknowledgment can be
\* an accepted PUT.)
C4_UpdateFrame ==
    [][resp'.op = "update_product" =>
       \A h \in GoodHeaders : \A id \in PathIds, d \in ProductMaps :
          update_product(id, d, h) =>
              /\ resp' = [op |-> "update_product", status |-> 200,
                          body |-> [ok |-> TRUE]]
              /\ UNCHANGED <<home_content, categories>>
              /\ Len(products') = Len(products)
              /\ \A i \in DOMAIN products :
                    IF Matches(products, "id", id) # {}
                       /\ i = Min(Matches(products, "id", id))
                    THEN /\ DOMAIN products'[i] = DOMAIN products[i]
                         /\ \A k \in DOMAIN d : products'[i][k] = d[k]
                         /\ \A k \in DOMAIN products[i] \ DOMAIN d :
                               products'[i][k] = products[i][k]
                    ELSE products'[i] = products[i]]_vars

C4_Witness ==
    /\ resp.op = "update_product"
    /\ resp.status = 200
    /\ Len(products) = 2
    /\ products[1].price = 2
    /\ products[2].price = 1
    /\ products[1].id = products[2].id

Sections == {"branding", "hero", "sobre", "contato", "footer"}

\* C7: before any write GET /home-content returns the default HomeContent
\* and writes nothing; after PUT {branding: {nome_loja: v}} it returns a
\* document with branding.nome_loja = v in which every other section and
\* every other branding field has its prior value (its default if never
\* written).
C7_MergeNotReplace ==
    [][/\ home_content = <<>> => home_view(home_content) = HomeContent
       /\ get_home_content => UNCHANGED storage
       /\ \A h \in GoodHeaders :
            update_home_content([branding |-> [nome_loja |-> "Central Joias"]], h) =>
              LET before == home_view(home_content)
                  after == home_view(home_content')
              IN /\ "branding" \in DOMAIN after
                 /\ after.branding.nome_loja = "Central Joias"
                 /\ \A s \in Sections \ {"branding"} :
                       /\ s \in DOMAIN after
                       /\ s \in DOMAIN before => after[s] = before[s]
                 /\ \A f \in {"slogan", "logo_url"} :
                       /\ f \in DOMAIN after.branding
                       /\ ("branding" \in DOMAIN before
                             /\ f \in DOMAIN before.branding)
                            => after.branding[f] = before.branding[f]]_vars

\* C8: no two product documents share an id and no two category documents
\* share an id.
C8_UniqueIds ==
    /\ \A i, j \in DOMAIN products :
          products[i].id = products[j].id => i = j
    /\ \A i, j \in DOMAIN categories :
          categories[i].id = categories[j].id => i = j

\* C9: the home-content collection holds at most one document, and once a
\* write has succeeded exactly one, whose slug is "home".
C9_Singleton ==
    /\ Len(home_content) <= 1
    /\ home_content # <<>> => home_content[1].slug = "home"

Lifetime == JWT_EXPIRATION_HOURS * HourSeconds * TicksPerSecond

\* C5 as stated: the token of a login at time issued is accepted at every
\* time before issued + L and answered 401 at every time from issued + L on.
C5_AsStated ==
    client # <<>> =>
        LET user == verify_token(<<client[1].token>>) IN
        IF now < client[1].issued + Lifetime THEN user.ok
        ELSE ~user.ok /\ user.status = {401}

\* C5, amended: the token of a login at time issued is accepted as long as
\* the clock's whole second is not after the whole second of issued + L, so
\* also at the instant issued + L and through the rest of that second, and
\* is answered 401 in every later second.
C5_Expiry ==
    client # <<>> =>
        LET user == verify_token(<<client[1].token>>) IN
        IF now \div TicksPerSecond
              <= (client[1].issued + Lifetime) \div TicksPerSecond
        THEN user.ok /\ user.user = "admin"
        ELSE ~user.ok /\ user.status = {401}

C5_Witness ==
    /\ client # <<>>
    /\ now = client[1].issued + Lifetime
    /\ Lifetime > 0
    /\ resp.op = "upload_image"
    /\ resp.status = 200

\* C6: a login with the configured username and password answers a token
\* whose verification yields the submitted username; any other login, and
\* every login when no admin credentials are configured, answers 401 and
\* issues no token.
C6_Login ==
    [][\A u \in Usernames, p \in Passwords :
          admin_login([username |-> u, password |-> p]) =>
              IF <<u>> = ADMIN_USER /\ <<p>> = ADMIN_PASS
              THEN /\ resp'.status = 200
                   /\ resp'.body.token_type = "bearer"
                   /\ verify_token(<<resp'.body.access_token>>).ok
                   /\ verify_token(<<resp'.body.access_token>>).user = u
              ELSE /\ resp'.status = 401
                   /\ client' = client]_vars

C6_Witness ==
    /\ resp.op = "admin_login"
    /\ resp.status = 200
    /\ verify_token(<<resp.body.access_token>>).ok
    /\ verify_token(<<resp.body.access_token>>).user = ADMIN_USER[1]

\* C10: when the concurrent requests have all been answered, the product
\* documents and the home-content document are what the requests leave when
\* they run one after the other in some order.
C10_Serializable ==
    (pending # <<>> /\ \A c \in Clients : pending[c].step = "done") =>
        \E o \in Orders :
            /\ products = Serial(initial, o).products
            /\ find_one(home_content, "slug", "home")
                 = find_one(Serial(initial, o).home_content, "slug", "home")

====
